---------------------------- MODULE Spec2Model ----------------------------
(***************************************************************************)
(* Model of the pagination value objects and the cursor codec of           *)
(* internal/domain/pagination.go.                                          *)
(*                                                                         *)
(* A Go string is a sequence of bytes (0..255).  A cursor token is a Go    *)
(* string too; its bytes are written as ASCII codes.  A []string is a      *)
(* sequence of such sequences; a nil slice is told apart from an empty     *)
(* one by the isNil field of the result records.  A []SortOption is a      *)
(* slice header, a reference to a backing array and a length: two slices   *)
(* with the same reference share their elements.                           *)
(***************************************************************************)
EXTENDS Integers, Sequences, FiniteSets, TLC

(***************************************************************************)
(* Bounds of the model.                                                    *)
(***************************************************************************)
\* longest cursor value drawn as an input
MaxStrLen == 1
\* longest list of values handed to EncodeCursor
MaxVals == 2
\* longest token a client hands to DecodeCursor directly
MaxTokenLen == 4
\* width in bits of the modelled platform int (Go's is 64; the arithmetic is
\* the same two's complement arithmetic at any width)
IntBits == 16
\* largest small page number, page size and item total drawn as inputs
MaxPage == 3
MaxSize == 3
MaxTotal == 7
\* longest item list and longest sort list drawn as inputs
MaxItems == 1
MaxSort == 1
\* number of backing arrays the heap has room for
MaxArrays == 3
\* requests the HTTP server serves at a time, and signals the process gets
MaxActive == 1
MaxSignals == 2
\* contexts in the tree the goroutines derive, the root included
MaxContexts == 3

(***************************************************************************)
(* Program constants.                                                      *)
(***************************************************************************)
\* const cursorSeparator = "\x00"
cursorSeparator == 0

\* const DefaultPage, DefaultPageSize, MaxPageSize
DefaultPage == 1
DefaultPageSize == 20
MaxPageSize == 1000

\* const SortAsc, SortDesc
SortAsc == "asc"
SortDesc == "desc"

\* errors of the package (pagination.go:10-14); NoError is Go's nil error
NoError == "nil"
ErrInvalidPage == "ErrInvalidPage"
ErrInvalidPageSize == "ErrInvalidPageSize"
ErrInvalidCursor == "ErrInvalidCursor"

(***************************************************************************)
(* encoding/base64, URLEncoding: the URL-safe alphabet, padded with '=',   *)
(* not strict.                                                             *)
(***************************************************************************)
\* base64.StdPadding, '='
padChar == 61

\* the alphabet "A-Za-z0-9-_" as ASCII codes, index 0..63
encodeURL(i) ==
    IF i < 26 THEN 65 + i
    ELSE IF i < 52 THEN 97 + (i - 26)
    ELSE IF i < 62 THEN 48 + (i - 52)
    ELSE IF i = 62 THEN 45
    ELSE 95

\* the decoder's table: the index of an alphabet byte, 255 for any other byte
decodeMap(c) ==
    IF \E i \in 0..63 : encodeURL(i) = c
    THEN CHOOSE i \in 0..63 : encodeURL(i) = c
    ELSE 255

\* '\n' and '\r' are skipped by the decoder
IsNewline(c) == c = 10 \/ c = 13

Tail3(s) == SubSeq(s, 4, Len(s))

\* Encoding.EncodeToString: 3 bytes become 4 alphabet bytes, a remainder of
\* 1 or 2 bytes becomes 2 or 3 alphabet bytes padded to 4 with '='
RECURSIVE EncodeToString(_)
EncodeToString(src) ==
    IF Len(src) = 0 THEN << >>
    ELSE IF Len(src) >= 3 THEN
        LET val == src[1] * 65536 + src[2] * 256 + src[3]
        IN  << encodeURL((val \div 262144) % 64), encodeURL((val \div 4096) % 64),
               encodeURL((val \div 64) % 64), encodeURL(val % 64) >>
            \o EncodeToString(Tail3(src))
    ELSE IF Len(src) = 2 THEN
        LET val == src[1] * 65536 + src[2] * 256
        IN  << encodeURL((val \div 262144) % 64), encodeURL((val \div 4096) % 64),
               encodeURL((val \div 64) % 64), padChar >>
    ELSE
        LET val == src[1] * 65536
        IN  << encodeURL((val \div 262144) % 64), encodeURL((val \div 4096) % 64),
               padChar, padChar >>

\* the decoder's "skip over newlines" loops; si counts the bytes consumed
RECURSIVE SkipNewlines(_, _)
SkipNewlines(src, si) ==
    IF si < Len(src) /\ IsNewline(src[si + 1]) THEN SkipNewlines(src, si + 1) ELSE si

\* the tail of decodeQuantum: dlen 6-bit digits become dlen-1 bytes
QuantumBytes(dbuf, dlen) ==
    LET val == dbuf[1] * 262144 + dbuf[2] * 4096 + dbuf[3] * 64 + dbuf[4]
        b0  == (val \div 65536) % 256
        b1  == (val \div 256) % 256
        b2  == val % 256
    IN  IF dlen = 4 THEN << b0, b1, b2 >>
        ELSE IF dlen = 3 THEN << b0, b1 >>
        ELSE IF dlen = 2 THEN << b0 >>
        ELSE << >>

\* Encoding.decodeQuantum from offset si, its loop over j unrolled as a
\* recursion; the result is the new offset, the bytes written and whether a
\* CorruptInputError is returned
RECURSIVE decodeQuantum(_, _, _, _)
decodeQuantum(src, si, j, dbuf) ==
    IF j = 4 THEN [si |-> si, bytes |-> QuantumBytes(dbuf, 4), err |-> FALSE]
    ELSE IF Len(src) = si THEN
        IF j = 0 THEN [si |-> si, bytes |-> << >>, err |-> FALSE]
        ELSE [si |-> si, bytes |-> << >>, err |-> TRUE]
    ELSE
        LET in  == src[si + 1]
            out == decodeMap(in)
        IN  IF out # 255 THEN decodeQuantum(src, si + 1, j + 1, [dbuf EXCEPT ![j + 1] = out])
            ELSE IF IsNewline(in) THEN decodeQuantum(src, si + 1, j, dbuf)
            ELSE IF in # padChar THEN [si |-> si + 1, bytes |-> << >>, err |-> TRUE]
            ELSE IF j < 2 THEN [si |-> si + 1, bytes |-> << >>, err |-> TRUE]
            ELSE
                LET s2 == IF j = 2 THEN SkipNewlines(src, si + 1) ELSE si + 1
                IN  IF j = 2 /\ (s2 = Len(src) \/ src[s2 + 1] # padChar)
                    THEN [si |-> s2, bytes |-> << >>, err |-> TRUE]
                    ELSE
                        LET s3 == IF j = 2 THEN s2 + 1 ELSE s2
                            s4 == SkipNewlines(src, s3)
                        IN  [si |-> s4, bytes |-> QuantumBytes(dbuf, j),
                             err |-> s4 < Len(src)]

\* Encoding.Decode: quantum after quantum until the input ends or one fails
RECURSIVE Decode(_, _, _)
Decode(src, si, dst) ==
    IF si < Len(src) THEN
        LET q == decodeQuantum(src, si, 0, << 0, 0, 0, 0 >>)
        IN  IF q.err THEN [bytes |-> dst \o q.bytes, err |-> TRUE]
            ELSE Decode(src, q.si, dst \o q.bytes)
    ELSE [bytes |-> dst, err |-> FALSE]

\* Encoding.DecodeString: the bytes decoded so far and whether it failed
DecodeString(s) == Decode(s, 0, << >>)

(***************************************************************************)
(* package strings                                                         *)
(***************************************************************************)
\* strings.Join(elems, sep) with the one-byte separator
RECURSIVE Join(_, _)
Join(elems, sep) ==
    IF Len(elems) = 0 THEN << >>
    ELSE IF Len(elems) = 1 THEN elems[1]
    ELSE elems[1] \o << sep >> \o Join(Tail(elems), sep)

\* strings.SplitN(s, sep, 2): a split at the first separator only
SplitOnce(s, sep) ==
    IF \E i \in 1..Len(s) : s[i] = sep THEN
        LET i == CHOOSE k \in 1..Len(s) : s[k] = sep /\ \A m \in 1..(k - 1) : s[m] # sep
        IN  << SubSeq(s, 1, i - 1), SubSeq(s, i + 1, Len(s)) >>
    ELSE << s >>

\* strings.Split(s, sep) with the one-byte separator: one more element than
\* there are separators in s, so never an empty list
RECURSIVE Split(_, _)
Split(s, sep) ==
    IF \E i \in 1..Len(s) : s[i] = sep THEN
        LET i == CHOOSE k \in 1..Len(s) : s[k] = sep /\ \A m \in 1..(k - 1) : s[m] # sep
        IN  << SubSeq(s, 1, i - 1) >> \o Split(SubSeq(s, i + 1, Len(s)), sep)
    ELSE << s >>

(***************************************************************************)
(* Cursor codec (pagination.go:231-270)                                    *)
(***************************************************************************)
\* func EncodeCursor(values ...string) string
EncodeCursor(values) ==
    IF Len(values) = 0 THEN << >>
    ELSE EncodeToString(Join(values, cursorSeparator))

\* DecodeCursor without its check for the empty token
DecodeCursorNoEmptyCheck(cursor) ==
    LET d == DecodeString(cursor)
    IN  IF d.err THEN [values |-> << >>, isNil |-> TRUE, err |-> ErrInvalidCursor]
        ELSE [values |-> Split(d.bytes, cursorSeparator), isNil |-> FALSE,
              err |-> NoError]

\* DecodeCursor returning what was decoded before the error
DecodeCursorPartial(cursor) ==
    IF cursor = << >> THEN [values |-> << >>, isNil |-> TRUE, err |-> NoError]
    ELSE
        LET d == DecodeString(cursor)
        IN  [values |-> Split(d.bytes, cursorSeparator), isNil |-> FALSE,
             err |-> IF d.err THEN ErrInvalidCursor ELSE NoError]

\* func DecodeCursor(cursor string) ([]string, error)
DecodeCursor(cursor) ==
    IF cursor = << >> THEN [values |-> << >>, isNil |-> TRUE, err |-> NoError]
    ELSE
        LET d == DecodeString(cursor)
        IN  IF d.err THEN [values |-> << >>, isNil |-> TRUE, err |-> ErrInvalidCursor]
            ELSE [values |-> Split(d.bytes, cursorSeparator), isNil |-> FALSE,
                  err |-> NoError]

\* DecodeCursorSingle taking the first of several values
DecodeCursorSingleFirst(cursor) ==
    LET r == DecodeCursor(cursor)
    IN  IF r.err # NoError THEN [value |-> << >>, err |-> r.err]
        ELSE IF Len(r.values) < 1 THEN [value |-> << >>, err |-> ErrInvalidCursor]
        ELSE [value |-> r.values[1], err |-> NoError]

\* func DecodeCursorSingle(cursor string) (string, error)
DecodeCursorSingle(cursor) ==
    LET r == DecodeCursor(cursor)
    IN  IF r.err # NoError THEN [value |-> << >>, err |-> r.err]
        ELSE IF Len(r.values) # 1 THEN [value |-> << >>, err |-> ErrInvalidCursor]
        ELSE [value |-> r.values[1], err |-> NoError]

(***************************************************************************)
(* Go's int: two's complement, IntBits wide.  int64 has the same width on  *)
(* the modelled platform, so int(totalItems) keeps the value.              *)
(***************************************************************************)
RECURSIVE Pow2(_)
Pow2(n) == IF n = 0 THEN 1 ELSE 2 * Pow2(n - 1)

MaxInt == Pow2(IntBits - 1) - 1
MinInt == 0 - Pow2(IntBits - 1)

\* the value an int holds after an operation whose exact result is x
WrapInt(x) ==
    LET m == x % Pow2(IntBits)
    IN  IF m > MaxInt THEN m - Pow2(IntBits) ELSE m

Abs(x) == IF x < 0 THEN 0 - x ELSE x

\* Go's a / b and a % b for b # 0: the quotient truncates toward zero and
\* the remainder has the sign of a
GoDiv(a, b) ==
    LET q == Abs(a) \div Abs(b)
    IN  WrapInt(IF (a < 0) = (b < 0) THEN q ELSE 0 - q)

GoMod(a, b) ==
    LET r == Abs(a) % Abs(b)
    IN  IF a < 0 THEN 0 - r ELSE r

(***************************************************************************)
(* Slices of sort options.  The heap maps a reference to the elements of   *)
(* its backing array; an array nobody refers to is collected and its       *)
(* reference is free again (a free reference maps to no elements).         *)
(***************************************************************************)
\* the nil slice: the sort field of a request built by a constructor
NilSlice == [ref |-> 0, len |-> 0]

EmptyHeap == [i \in 1..MaxArrays |-> << >>]

\* the elements a slice reads
Elems(heap, sl) == IF sl.ref = 0 THEN << >> ELSE SubSeq(heap[sl.ref], 1, sl.len)

HasFreeRef(heap) == \E i \in 1..MaxArrays : heap[i] = << >>
FreeRef(heap) ==
    CHOOSE i \in 1..MaxArrays : heap[i] = << >> /\ \A j \in 1..(i - 1) : heap[j] # << >>

\* the slice a call f(a, b, ...) hands to its variadic parameter, and the
\* heap after it: nil for no arguments, else a new array holding them
Variadic(heap, args) ==
    IF Len(args) = 0 THEN [slice |-> NilSlice, heap |-> heap]
    ELSE LET i == FreeRef(heap)
         IN  [slice |-> [ref |-> i, len |-> Len(args)],
              heap |-> [heap EXCEPT ![i] = args]]

\* the heap once the arrays no reference in live reaches are collected
Collect(heap, live) == [i \in 1..MaxArrays |-> IF i \in live THEN heap[i] ELSE << >>]

(***************************************************************************)
(* SortOption (pagination.go:31-50)                                        *)
(***************************************************************************)
\* SortOption{}, the zero value
ZeroSortOption == [field |-> "", direction |-> ""]

\* NewSortOption keeping the direction it is given
NewSortOptionUnchecked(field, direction) == [field |-> field, direction |-> direction]

\* func NewSortOption(field string, direction SortDirection) SortOption
NewSortOption(field, direction) ==
    [field |-> field,
     direction |-> IF direction # SortAsc /\ direction # SortDesc THEN SortAsc
                   ELSE direction]

\* the getters of SortOption
Field(s) == s.field
Direction(s) == s.direction
IsAscending(s) == s.direction = SortAsc

(***************************************************************************)
(* PageRequest (pagination.go:56-99)                                       *)
(***************************************************************************)
\* PageRequest{}, the zero value returned with an error
ZeroPageRequest == [page |-> 0, pageSize |-> 0, sort |-> NilSlice]

\* NewPageRequest checking the page size before the page
NewPageRequestSizeFirst(p, ps) ==
    IF ps < 1 \/ ps > MaxPageSize
    THEN [req |-> ZeroPageRequest, err |-> ErrInvalidPageSize]
    ELSE IF p < 1 THEN [req |-> ZeroPageRequest, err |-> ErrInvalidPage]
    ELSE [req |-> [page |-> p, pageSize |-> ps, sort |-> NilSlice], err |-> NoError]

\* NewPageRequest refusing the largest page size
NewPageRequestBelowMax(p, ps) ==
    IF p < 1 THEN [req |-> ZeroPageRequest, err |-> ErrInvalidPage]
    ELSE IF ps < 1 \/ ps >= MaxPageSize
         THEN [req |-> ZeroPageRequest, err |-> ErrInvalidPageSize]
    ELSE [req |-> [page |-> p, pageSize |-> ps, sort |-> NilSlice], err |-> NoError]

\* func NewPageRequest(page, pageSize int) (PageRequest, error)
NewPageRequest(p, ps) ==
    IF p < 1 THEN [req |-> ZeroPageRequest, err |-> ErrInvalidPage]
    ELSE IF ps < 1 \/ ps > MaxPageSize
         THEN [req |-> ZeroPageRequest, err |-> ErrInvalidPageSize]
    ELSE [req |-> [page |-> p, pageSize |-> ps, sort |-> NilSlice], err |-> NoError]

\* PageRequest.WithSort building the new value from the default page size
WithSortDefaultSize(p, sort) == [page |-> p.page, pageSize |-> DefaultPageSize, sort |-> sort]

\* func (p PageRequest) WithSort(sort ...SortOption) PageRequest
WithSort(p, sort) == [page |-> p.page, pageSize |-> p.pageSize, sort |-> sort]

\* WithSort writing the clauses into the receiver's backing array when they
\* fit (append(p.sort[:0], sort...))
WithSortArraysReused(heap, p, sort) ==
    IF p.sort.ref # 0 /\ sort.ref # 0 /\ sort.len <= Len(heap[p.sort.ref])
    THEN [heap EXCEPT ![p.sort.ref] =
             [k \in 1..Len(@) |-> IF k <= sort.len THEN heap[sort.ref][k] ELSE @[k]]]
    ELSE heap

\* the heap after p.WithSort(sort...), of PageRequest and of CursorRequest:
\* the method writes to no array
WithSortArrays(heap, p, sort) == heap

\* func NewPageRequestWithDefaults() PageRequest, with the wrong constant
NewPageRequestWithMaxSize ==
    [page |-> DefaultPage, pageSize |-> MaxPageSize, sort |-> NilSlice]

\* func NewPageRequestWithDefaults() PageRequest
NewPageRequestWithDefaults ==
    [page |-> DefaultPage, pageSize |-> DefaultPageSize, sort |-> NilSlice]

\* the getters of PageRequest
Page(p) == p.page
PageSize(p) == p.pageSize
Sort(p) == p.sort
Limit(p) == p.pageSize

\* Offset counting pages from zero
OffsetFromZero(p) == WrapInt(p.page * p.pageSize)

\* func (p PageRequest) Offset() int
Offset(p) == WrapInt(WrapInt(p.page - 1) * p.pageSize)

(***************************************************************************)
(* CursorRequest (pagination.go:150-190).  PageSize, Sort and Limit above  *)
(* read a CursorRequest too.                                               *)
(***************************************************************************)
\* CursorRequest{}, the zero value returned with an error
ZeroCursorRequest == [cursor |-> << >>, pageSize |-> 0, sort |-> NilSlice]

\* NewCursorRequest refusing a cursor that does not decode
NewCursorRequestDecoding(c, ps) ==
    IF ps < 1 \/ ps > MaxPageSize
    THEN [req |-> ZeroCursorRequest, err |-> ErrInvalidPageSize]
    ELSE IF DecodeCursor(c).err # NoError
         THEN [req |-> ZeroCursorRequest, err |-> ErrInvalidCursor]
    ELSE [req |-> [cursor |-> c, pageSize |-> ps, sort |-> NilSlice], err |-> NoError]

\* func NewCursorRequest(cursor string, pageSize int) (CursorRequest, error)
NewCursorRequest(c, ps) ==
    IF ps < 1 \/ ps > MaxPageSize
    THEN [req |-> ZeroCursorRequest, err |-> ErrInvalidPageSize]
    ELSE [req |-> [cursor |-> c, pageSize |-> ps, sort |-> NilSlice], err |-> NoError]

\* func NewCursorRequestWithDefaults() CursorRequest
NewCursorRequestWithDefaults ==
    [cursor |-> << >>, pageSize |-> DefaultPageSize, sort |-> NilSlice]

\* CursorRequest.WithSort leaving the page size out of the new value
CursorWithSortNoSize(c, sort) == [cursor |-> c.cursor, pageSize |-> 0, sort |-> sort]

\* CursorRequest.WithSort keeping the clauses the receiver has
CursorWithSortKept(c, sort) ==
    [cursor |-> c.cursor, pageSize |-> c.pageSize,
     sort |-> IF c.sort.ref # 0 THEN c.sort ELSE sort]

\* func (c CursorRequest) WithSort(sort ...SortOption) CursorRequest
CursorWithSort(c, sort) == [cursor |-> c.cursor, pageSize |-> c.pageSize, sort |-> sort]

\* the getters of CursorRequest
Cursor(c) == c.cursor
HasCursor(c) == c.cursor # << >>

(***************************************************************************)
(* PageResult (pagination.go:101-144)                                      *)
(***************************************************************************)
\* the value a variable holds where no PageResult was built: the call is
\* still to come, or it panicked
NoPageResult ==
    [items |-> << >>, page |-> 0, pageSize |-> 0, totalItems |-> 0, totalPages |-> 0,
     panicked |-> FALSE]

\* NewPageResult without the page for the remainder
NewPageResultFloor(its, p, ps, total) ==
    IF ps = 0 THEN [NoPageResult EXCEPT !.panicked = TRUE]
    ELSE [items |-> its, page |-> p, pageSize |-> ps, totalItems |-> total,
          totalPages |-> GoDiv(total, ps), panicked |-> FALSE]

\* NewPageResult counting one page more than the quotient in every case
NewPageResultExtra(its, p, ps, total) ==
    IF ps = 0 THEN [NoPageResult EXCEPT !.panicked = TRUE]
    ELSE [items |-> its, page |-> p, pageSize |-> ps, totalItems |-> total,
          totalPages |-> WrapInt(GoDiv(total, ps) + 1), panicked |-> FALSE]

\* func NewPageResult[T any](items []T, page, pageSize int, totalItems int64)
\* an integer division by zero is a run-time panic
NewPageResult(its, p, ps, total) ==
    IF ps = 0 THEN [NoPageResult EXCEPT !.panicked = TRUE]
    ELSE
        LET quot == GoDiv(total, ps)
        IN  [items |-> its, page |-> p, pageSize |-> ps, totalItems |-> total,
             totalPages |-> IF GoMod(total, ps) > 0 THEN WrapInt(quot + 1) ELSE quot,
             panicked |-> FALSE]

\* the getters of PageResult
TotalItems(r) == r.totalItems
TotalPages(r) == r.totalPages
HasPrev(r) == r.page > 1
IsEmpty(r) == Len(r.items) = 0

\* EmptyPageResult returning the zero value PageResult[T]{}
EmptyPageResultZero == NoPageResult

\* func EmptyPageResult[T any]() PageResult[T]
EmptyPageResult ==
    [items |-> << >>, page |-> 1, pageSize |-> DefaultPageSize, totalItems |-> 0,
     totalPages |-> 0, panicked |-> FALSE]

\* HasNext counting the last page as having a next one
HasNextInclusive(r) == r.page <= r.totalPages

\* func (r PageResult[T]) HasNext() bool
HasNext(r) == r.page < r.totalPages

(***************************************************************************)
(* CursorResult (pagination.go:192-225)                                    *)
(***************************************************************************)
\* the value a variable holds where no CursorResult was built yet
NoCursorResult ==
    [items |-> << >>, nextCursor |-> << >>, prevCursor |-> << >>, hasMore |-> FALSE]

\* NewCursorResult deriving hasMore from the next cursor
NewCursorResultDerived(its, next, prev, more) ==
    [items |-> its, nextCursor |-> next, prevCursor |-> prev, hasMore |-> next # << >>]

\* func NewCursorResult[T any](items []T, nextCursor, prevCursor string,
\* hasMore bool) CursorResult[T]
NewCursorResult(its, next, prev, more) ==
    [items |-> its, nextCursor |-> next, prevCursor |-> prev, hasMore |-> more]

\* EmptyCursorResult announcing more items
EmptyCursorResultMore ==
    [items |-> << >>, nextCursor |-> << >>, prevCursor |-> << >>, hasMore |-> TRUE]

\* func EmptyCursorResult[T any]() CursorResult[T]
EmptyCursorResult ==
    [items |-> << >>, nextCursor |-> << >>, prevCursor |-> << >>, hasMore |-> FALSE]

\* the getters of CursorResult; IsEmpty above reads a CursorResult too.
\* NextCursorOf is the method NextCursor()
Items(r) == r.items
NextCursorOf(r) == r.nextCursor
PrevCursor(r) == r.prevCursor
HasMore(r) == r.hasMore

(***************************************************************************)
(* response.List (internal/adapter/http/response/response.go:82-102).  The *)
(* response is what c.JSON is handed: the status, the success flag, the    *)
(* data and the pagination of the meta; the trace id and the timestamp of  *)
(* newMeta are left out.                                                   *)
(***************************************************************************)
\* the value a variable holds where no response was sent yet
NoResponse ==
    [status |-> 0, success |-> FALSE, data |-> << >>,
     pagination |-> [page |-> 0, pageSize |-> 0, total |-> 0, totalPages |-> 0]]

\* func List(c *gin.Context, data any, page, pageSize, total int)
List(data, p, ps, total) ==
    [status |-> 200, success |-> TRUE, data |-> data,
     pagination |-> [page |-> p, pageSize |-> ps, total |-> total,
                     totalPages |-> IF ps > 0
                                    THEN GoDiv(WrapInt(WrapInt(total + ps) - 1), ps)
                                    ELSE 0]]

(***************************************************************************)
(* contextx (pkg/contextx, contextx_test.go:604-1074).  A context holds    *)
(* its parent and, under fieldsKey, a []any slice: a reference into the    *)
(* heap of field arrays and a length.  An array has its capacity in        *)
(* elements; the ones past every slice's length are "unset".               *)
(***************************************************************************)
\* fieldsFromContext(c) of a context without fields: nil
NilFields == [ref |-> 0, len |-> 0]

\* what append returns: a slice of a shared array (ref # 0), or a slice of
\* an array of its own, given by its elements
AllArgs(ref, len, own) == [ref |-> ref, len |-> len, own |-> own]

\* the elements a slice returned by append reads
ReadArgs(heap, v) == IF v.ref = 0 THEN v.own ELSE SubSeq(heap[v.ref], 1, v.len)

\* append(fields, args...): in place when the capacity of fields has room
\* for the arguments, in a new array otherwise; fields itself for no
\* arguments
AppendArgs(heap, fields, args) ==
    IF Len(args) = 0
    THEN [slice |-> AllArgs(fields.ref, fields.len, << >>), heap |-> heap]
    ELSE IF fields.ref # 0 /\ fields.len + Len(args) <= Len(heap[fields.ref])
    THEN [slice |-> AllArgs(fields.ref, fields.len + Len(args), << >>),
          heap |-> [heap EXCEPT ![fields.ref] =
                       [k \in 1..Len(@) |->
                           IF k > fields.len /\ k <= fields.len + Len(args)
                           THEN args[k - fields.len] ELSE @[k]]]]
    ELSE [slice |-> AllArgs(0, 0, Elems(heap, fields) \o args), heap |-> heap]

\* WithFields making the new slice with room for two more elements
WithFieldsRoomy(heap, existing, args) ==
    LET all == Elems(heap, existing) \o args
    IN  [slice |-> [ref |-> Len(heap) + 1, len |-> Len(all)],
         heap |-> Append(heap, all \o << "unset", "unset" >>)]

\* func WithFields(c context.Context, args ...any) context.Context: the
\* slice stored under fieldsKey and the heap after the call.  newFields is
\* made with the capacity len(existing)+len(args) and filled to it
WithFields(heap, existing, args) ==
    LET all == Elems(heap, existing) \o args
    IN  [slice |-> [ref |-> Len(heap) + 1, len |-> Len(all)],
         heap |-> Append(heap, all)]

\* func fieldsFromContext(c context.Context) []any
fieldsFromContext(c) == c.fields

(***************************************************************************)
(* The callers of the package: the inputs they hold, the calls they have   *)
(* made and the values the calls returned.                                 *)
(***************************************************************************)
VARIABLES
    calls,       \* the functions called so far
    source,      \* "values": the cursor comes from EncodeCursor; "client": it arrives
                 \* from outside; "none": the cursor codec is not in use
    values,      \* the argument of EncodeCursor
    cursor,      \* the token: EncodeCursor's result, or the client's string
    decoded,     \* what DecodeCursor(cursor) returned
    single,      \* what DecodeCursorSingle(cursor) returned
    page,        \* the page argument of NewPageRequest and NewPageResult
    pageSize,    \* their pageSize argument
    totalItems,  \* the totalItems argument of NewPageResult
    items,       \* its items argument
    pageReq,     \* what NewPageRequest returned, and WithSort after it
    offset,      \* what Offset() returned
    limit,       \* what Limit() returned
    pageRes,     \* what NewPageResult returned
    hasNext,     \* what HasNext() returned
    hasPrev,     \* what HasPrev() returned
    sortField,   \* the field argument of NewSortOption
    sortDirection, \* its direction argument
    sortOpt,     \* what NewSortOption returned
    isAsc,       \* what IsAscending() returned
    arrays,      \* the heap: the backing arrays of the sort slices
    ctor,        \* the constructor the shared request comes from
    reqCursor,   \* the cursor argument of NewCursorRequest
    cursorReq,   \* what the CursorRequest constructor returned
    held,        \* per holder, the request it derived with WithSort
    lastCall,    \* the last WithSort call: its caller, the receiver's clauses
                 \* before it and the clauses passed
    nextCursor,  \* the nextCursor argument of NewCursorResult
    prevCursor,  \* its prevCursor argument
    hasMore,     \* its hasMore argument
    cursorRes,   \* what NewCursorResult returned
    emptyPageRes,   \* what EmptyPageResult returned
    emptyCursorRes, \* what EmptyCursorResult returned
    listResp,    \* the response List sent
    mainPc,      \* where main is
    runPc,       \* where the goroutine that calls server.Run is
    servePc,     \* where the goroutine that calls ListenAndServe is
    signals,     \* main's channel of signals, of capacity 1
    sigSent,     \* the number of signals sent to the process
    mainErrCh,   \* main's errCh, of capacity 1
    runErrCh,    \* Run's errCh, of capacity 1
    runCtxDone,  \* whether runCtx is cancelled
    active,      \* the number of requests being served
    logged,      \* the messages logged
    contexts,    \* the contexts derived so far; the first is the root
    fieldArrays, \* the heap of the backing arrays of the field slices
    goPc,        \* per goroutine, where it is in its log call
    goCall,      \* per goroutine, the context and arguments of its log call
    goAllArgs,   \* per goroutine, allArgs of logWithCaller
    goPassed     \* per goroutine, the arguments its logger call received

cursorVars == << source, values, cursor, decoded, single >>
pageVars ==
    << page, pageSize, totalItems, items, pageReq, offset, limit, pageRes, hasNext, hasPrev >>
sortVars == << sortField, sortDirection, sortOpt, isAsc >>
requestVars == << ctor, reqCursor, cursorReq, held, lastCall >>
resultVars == << nextCursor, prevCursor, hasMore, cursorRes, emptyPageRes, emptyCursorRes >>
listVars == << listResp >>
shutdownVars ==
    << mainPc, runPc, servePc, signals, sigSent, mainErrCh, runErrCh, runCtxDone,
       active, logged >>
fieldVars == << contexts, fieldArrays, goPc, goCall, goAllArgs, goPassed >>
serviceVars == << listVars, shutdownVars, fieldVars >>
extraVars == << sortVars, requestVars, resultVars, serviceVars >>
vars == << calls, arrays, cursorVars, pageVars, extraVars >>

\* the sequences over S of length at most n
SeqUpTo(S, n) == UNION { [1..k -> S] : k \in 0..n }

\* the bytes the cursor values are made of: the separator, 'a' and 0xff
ByteInputs == { cursorSeparator, 97, 255 }
StringInputs == SeqUpTo(ByteInputs, MaxStrLen)
ValueLists == SeqUpTo(StringInputs, MaxVals)

\* the bytes of a client's token: 'A' and '_' of the alphabet, the padding,
\* a line feed and '!', which is no base64 byte
TokenBytes == { 65, 95, padChar, 10, 33 }
ClientCursors == SeqUpTo(TokenBytes, MaxTokenLen)

PageInputs == (-1 .. MaxPage) \cup { MinInt, MaxInt }
PageSizeInputs ==
    (-1 .. MaxSize) \cup { DefaultPageSize, MaxPageSize, MaxPageSize + 1, MaxInt }
TotalInputs == (-1 .. MaxTotal) \cup { 50, MaxInt }
ItemLists == SeqUpTo({ "item" }, MaxItems)
SortInputs ==
    SeqUpTo({ NewSortOption("id", SortAsc), NewSortOption("name", SortDesc) }, MaxSort)

\* nothing returned yet
NoDecoded == [values |-> << >>, isNil |-> TRUE, err |-> NoError]
NoSingle == [value |-> << >>, err |-> NoError]
NoPageRequest == [req |-> ZeroPageRequest, err |-> NoError]
NoCursorRequest == [req |-> ZeroCursorRequest, err |-> NoError]
NoHeld == [has |-> FALSE, req |-> ZeroPageRequest]
NoCall == [holder |-> "none", recvSort |-> << >>, arg |-> << >>]

\* the goroutines a request is handed to
Holders == { "g1", "g2" }

CursorIdle ==
    /\ source = "none"
    /\ values = << >>
    /\ cursor = << >>
    /\ decoded = NoDecoded
    /\ single = NoSingle

PageIdle ==
    /\ page = 0
    /\ pageSize = 0
    /\ totalItems = 0
    /\ items = << >>
    /\ pageReq = NoPageRequest
    /\ offset = 0
    /\ limit = 0
    /\ pageRes = NoPageResult
    /\ hasNext = FALSE
    /\ hasPrev = FALSE

SortIdle ==
    /\ sortField = ""
    /\ sortDirection = ""
    /\ sortOpt = ZeroSortOption
    /\ isAsc = FALSE

RequestIdle ==
    /\ ctor = "none"
    /\ reqCursor = << >>
    /\ cursorReq = NoCursorRequest
    /\ held = [h \in Holders |-> NoHeld]
    /\ lastCall = NoCall

ResultIdle ==
    /\ nextCursor = << >>
    /\ prevCursor = << >>
    /\ hasMore = FALSE
    /\ cursorRes = NoCursorResult
    /\ emptyPageRes = NoPageResult
    /\ emptyCursorRes = NoCursorResult

ListIdle == listResp = NoResponse

ShutdownIdle ==
    /\ mainPc = "none"
    /\ runPc = "none"
    /\ servePc = "none"
    /\ signals = << >>
    /\ sigSent = 0
    /\ mainErrCh = << >>
    /\ runErrCh = << >>
    /\ runCtxDone = FALSE
    /\ active = 0
    /\ logged = {}

NoLogCall == [ctx |-> 0, args |-> << >>]

FieldsIdle ==
    /\ contexts = << >>
    /\ fieldArrays = << >>
    /\ goPc = [g \in Holders |-> "none"]
    /\ goCall = [g \in Holders |-> NoLogCall]
    /\ goAllArgs = [g \in Holders |-> AllArgs(0, 0, << >>)]
    /\ goPassed = [g \in Holders |-> << >>]

\* the parts outside the pagination package at rest
ServiceIdle == ListIdle /\ ShutdownIdle /\ FieldsIdle

\* the references the callers' variables hold
LiveRefs(pr, cr, hd) ==
    { pr.req.sort.ref, cr.req.sort.ref } \cup { hd[h].req.sort.ref : h \in Holders }

(***************************************************************************)
(* The cursor codec in use.                                                *)
(***************************************************************************)
InitCursor ==
    /\ calls = {}
    /\ \/ source = "values" /\ values \in ValueLists /\ cursor = << >>
       \/ source = "client" /\ values = << >> /\ cursor \in ClientCursors
    /\ decoded = NoDecoded
    /\ single = NoSingle
    /\ arrays = EmptyHeap
    /\ ServiceIdle
    /\ PageIdle
    /\ SortIdle
    /\ RequestIdle
    /\ ResultIdle

\* the caller holds a token to decode
HasToken == source = "client" \/ "EncodeCursor" \in calls

CallEncodeCursor ==
    /\ source = "values"
    /\ "EncodeCursor" \notin calls
    /\ cursor' = EncodeCursor(values)
    /\ calls' = calls \cup { "EncodeCursor" }
    /\ UNCHANGED << arrays, source, values, decoded, single, pageVars, extraVars >>

CallDecodeCursor ==
    /\ HasToken
    /\ "DecodeCursor" \notin calls
    /\ decoded' = DecodeCursor(cursor)
    /\ calls' = calls \cup { "DecodeCursor" }
    /\ UNCHANGED << arrays, source, values, cursor, single, pageVars, extraVars >>

CallDecodeCursorSingle ==
    /\ HasToken
    /\ "DecodeCursorSingle" \notin calls
    /\ single' = DecodeCursorSingle(cursor)
    /\ calls' = calls \cup { "DecodeCursorSingle" }
    /\ UNCHANGED << arrays, source, values, cursor, decoded, pageVars, extraVars >>

NextCursor ==
    \/ CallEncodeCursor
    \/ CallDecodeCursor
    \/ CallDecodeCursorSingle

SpecCursor == InitCursor /\ [][NextCursor]_vars

(***************************************************************************)
(* Offset pagination in use.                                               *)
(***************************************************************************)
InitPage ==
    /\ calls = {}
    /\ arrays = EmptyHeap
    /\ ServiceIdle
    /\ CursorIdle
    /\ SortIdle
    /\ RequestIdle
    /\ ResultIdle
    /\ page \in PageInputs
    /\ pageSize \in PageSizeInputs
    /\ totalItems \in TotalInputs
    /\ items \in ItemLists
    /\ pageReq = NoPageRequest
    /\ offset = 0
    /\ limit = 0
    /\ pageRes = NoPageResult
    /\ hasNext = FALSE
    /\ hasPrev = FALSE

\* the caller holds a validated request
HasPageRequest ==
    /\ { "NewPageRequest", "NewPageRequestWithDefaults" } \cap calls # {}
    /\ pageReq.err = NoError

CallNewPageRequest ==
    /\ "NewPageRequest" \notin calls
    /\ pageReq' = NewPageRequest(page, pageSize)
    /\ calls' = calls \cup { "NewPageRequest" }
    /\ UNCHANGED << arrays, cursorVars, page, pageSize, totalItems, items, offset, limit, pageRes,
                   hasNext, hasPrev, extraVars >>

CallWithSort ==
    /\ HasPageRequest
    /\ \E sort \in SortInputs :
          LET built == Variadic(arrays, sort)
          IN  /\ pageReq' = [pageReq EXCEPT !.req = WithSort(@, built.slice)]
              /\ arrays' = Collect(WithSortArrays(built.heap, pageReq.req, built.slice),
                                   LiveRefs(pageReq', cursorReq, held))
    /\ calls' = calls \cup { "WithSort" }
    /\ UNCHANGED << cursorVars, page, pageSize, totalItems, items, offset, limit, pageRes,
                   hasNext, hasPrev, extraVars >>

CallOffsetLimit ==
    /\ HasPageRequest
    /\ offset' = Offset(pageReq.req)
    /\ limit' = Limit(pageReq.req)
    /\ calls' = calls \cup { "Offset" }
    /\ UNCHANGED << arrays, cursorVars, page, pageSize, totalItems, items, pageReq, pageRes,
                   hasNext, hasPrev, extraVars >>

CallNewPageResult ==
    /\ "NewPageResult" \notin calls
    /\ pageRes' = NewPageResult(items, page, pageSize, totalItems)
    /\ calls' = calls \cup { "NewPageResult" }
    /\ UNCHANGED << arrays, cursorVars, page, pageSize, totalItems, items, pageReq, offset, limit,
                   hasNext, hasPrev, extraVars >>

\* the caller holds a result: the call returned
HasPageResult == "NewPageResult" \in calls /\ ~pageRes.panicked

CallHasNextPrev ==
    /\ HasPageResult
    /\ "HasNext" \notin calls
    /\ hasNext' = HasNext(pageRes)
    /\ hasPrev' = HasPrev(pageRes)
    /\ calls' = calls \cup { "HasNext" }
    /\ UNCHANGED << arrays, cursorVars, page, pageSize, totalItems, items, pageReq, offset, limit,
                   pageRes, extraVars >>

NextPage ==
    \/ CallNewPageRequest
    \/ CallWithSort
    \/ CallOffsetLimit
    \/ CallNewPageResult
    \/ CallHasNextPrev

SpecPage == InitPage /\ [][NextPage]_vars

(***************************************************************************)
(* Sort options in use.                                                    *)
(***************************************************************************)
\* field names, the empty one included: the field is not validated
FieldInputs == { "", "id", "name", "created_at", "price", "updated_at", "title" }
\* the two directions and values that are neither
DirectionInputs == { SortAsc, SortDesc, "", "bogus", "ASC", "DESC" }

InitSort ==
    /\ calls = {}
    /\ arrays = EmptyHeap
    /\ ServiceIdle
    /\ CursorIdle
    /\ PageIdle
    /\ RequestIdle
    /\ ResultIdle
    /\ sortField \in FieldInputs
    /\ sortDirection \in DirectionInputs
    /\ sortOpt = ZeroSortOption
    /\ isAsc = FALSE

CallNewSortOption ==
    /\ "NewSortOption" \notin calls
    /\ sortOpt' = NewSortOption(sortField, sortDirection)
    /\ calls' = calls \cup { "NewSortOption" }
    /\ UNCHANGED << arrays, cursorVars, pageVars, requestVars, resultVars, serviceVars,
                   sortField, sortDirection, isAsc >>

CallIsAscending ==
    /\ "NewSortOption" \in calls
    /\ "IsAscending" \notin calls
    /\ isAsc' = IsAscending(sortOpt)
    /\ calls' = calls \cup { "IsAscending" }
    /\ UNCHANGED << arrays, cursorVars, pageVars, requestVars, resultVars, serviceVars,
                   sortField, sortDirection, sortOpt >>

NextSort ==
    \/ CallNewSortOption
    \/ CallIsAscending

SpecSort == InitSort /\ [][NextSort]_vars

(***************************************************************************)
(* Requests in use: one request is built and handed to the holders, which  *)
(* read it and derive requests of their own with WithSort.  A holder calls *)
(* WithSort with clauses written out, WithSort(a, b), or with the clauses  *)
(* of a request it can see, WithSort(r.Sort()...), which passes r's slice. *)
(***************************************************************************)
RequestPageInputs == { 0, 1 }
RequestSizeInputs == { 0, 1, MaxPageSize, MaxPageSize + 1 }
\* no cursor, and "!" that is no token: the cursor is not validated
RequestCursorInputs == { << >>, << 33 >> }
\* the clause lists the holders write out: none, one clause, and two in order
RequestSortInputs ==
    { << >>,
      << NewSortOption("id", SortAsc) >>,
      << NewSortOption("name", SortDesc) >>,
      << NewSortOption("name", SortDesc), NewSortOption("id", SortAsc) >> }

InitRequest ==
    /\ calls = {}
    /\ arrays = EmptyHeap
    /\ ServiceIdle
    /\ CursorIdle
    /\ SortIdle
    /\ ResultIdle
    /\ totalItems = 0
    /\ items = << >>
    /\ offset = 0
    /\ limit = 0
    /\ pageRes = NoPageResult
    /\ hasNext = FALSE
    /\ hasPrev = FALSE
    /\ \/ /\ ctor = "NewPageRequest"
          /\ page \in RequestPageInputs
          /\ pageSize \in RequestSizeInputs
          /\ reqCursor = << >>
       \/ /\ ctor = "NewCursorRequest"
          /\ page = 0
          /\ pageSize \in RequestSizeInputs
          /\ reqCursor \in RequestCursorInputs
       \/ /\ ctor \in { "NewPageRequestWithDefaults", "NewCursorRequestWithDefaults" }
          /\ page = 0
          /\ pageSize = 0
          /\ reqCursor = << >>
    /\ pageReq = NoPageRequest
    /\ cursorReq = NoCursorRequest
    /\ held = [h \in Holders |-> NoHeld]
    /\ lastCall = NoCall

CallNewPageRequestWithDefaults ==
    /\ ctor = "NewPageRequestWithDefaults"
    /\ "NewPageRequestWithDefaults" \notin calls
    /\ pageReq' = [req |-> NewPageRequestWithDefaults, err |-> NoError]
    /\ calls' = calls \cup { "NewPageRequestWithDefaults" }
    /\ UNCHANGED << arrays, cursorVars, page, pageSize, totalItems, items, offset, limit,
                   pageRes, hasNext, hasPrev, extraVars >>

CallNewCursorRequest ==
    /\ ctor = "NewCursorRequest"
    /\ "NewCursorRequest" \notin calls
    /\ cursorReq' = NewCursorRequest(reqCursor, pageSize)
    /\ calls' = calls \cup { "NewCursorRequest" }
    /\ UNCHANGED << arrays, cursorVars, pageVars, sortVars, resultVars, serviceVars,
                   ctor, reqCursor, held, lastCall >>

CallNewCursorRequestWithDefaults ==
    /\ ctor = "NewCursorRequestWithDefaults"
    /\ "NewCursorRequestWithDefaults" \notin calls
    /\ cursorReq' = [req |-> NewCursorRequestWithDefaults, err |-> NoError]
    /\ calls' = calls \cup { "NewCursorRequestWithDefaults" }
    /\ UNCHANGED << arrays, cursorVars, pageVars, sortVars, resultVars, serviceVars,
                   ctor, reqCursor, held, lastCall >>

\* the holders were handed a validated request
HasCursorRequest ==
    /\ { "NewCursorRequest", "NewCursorRequestWithDefaults" } \cap calls # {}
    /\ cursorReq.err = NoError

\* the requests a holder can see: the shared one and the derived ones
Receivers(shared) == { shared } \cup { held[g].req : g \in { x \in Holders : held[x].has } }

\* the arguments of a WithSort call: clauses written out, or the slice of a
\* request in sight
ArgSources(shared) ==
    [form : { "literal" }, clauses : RequestSortInputs, of : { shared }]
        \cup [form : { "spread" }, clauses : { << >> }, of : Receivers(shared)]

\* the slice the call passes, and the heap once it is built
ArgSlice(heap, src) ==
    IF src.form = "literal" THEN Variadic(heap, src.clauses)
    ELSE [slice |-> Sort(src.of), heap |-> heap]

\* holder h runs d := r.WithSort(...) on a PageRequest r
DerivePageRequest(h) ==
    /\ HasPageRequest
    /\ HasFreeRef(arrays)
    /\ \E recv \in Receivers(pageReq.req), src \in ArgSources(pageReq.req) :
          LET built == ArgSlice(arrays, src)
              d == [has |-> TRUE, req |-> WithSort(recv, built.slice)]
              call == [holder |-> h, recvSort |-> Elems(arrays, Sort(recv)),
                       arg |-> Elems(built.heap, built.slice)]
          IN  /\ held' = [held EXCEPT ![h] = d]
              /\ lastCall' = call
              /\ arrays' = Collect(WithSortArrays(built.heap, recv, built.slice),
                                   LiveRefs(pageReq, cursorReq, held'))
    /\ calls' = calls \cup { "WithSort" }
    /\ UNCHANGED << cursorVars, pageVars, sortVars, resultVars, serviceVars, ctor, reqCursor, cursorReq >>

\* holder h runs d := r.WithSort(...) on a CursorRequest r
DeriveCursorRequest(h) ==
    /\ HasCursorRequest
    /\ HasFreeRef(arrays)
    /\ \E recv \in Receivers(cursorReq.req), src \in ArgSources(cursorReq.req) :
          LET built == ArgSlice(arrays, src)
              d == [has |-> TRUE, req |-> CursorWithSort(recv, built.slice)]
              call == [holder |-> h, recvSort |-> Elems(arrays, Sort(recv)),
                       arg |-> Elems(built.heap, built.slice)]
          IN  /\ held' = [held EXCEPT ![h] = d]
              /\ lastCall' = call
              /\ arrays' = Collect(WithSortArrays(built.heap, recv, built.slice),
                                   LiveRefs(pageReq, cursorReq, held'))
    /\ calls' = calls \cup { "WithSort" }
    /\ UNCHANGED << cursorVars, pageVars, sortVars, resultVars, serviceVars, ctor, reqCursor, cursorReq >>

NextRequest ==
    \/ ctor = "NewPageRequest" /\ CallNewPageRequest
    \/ CallNewPageRequestWithDefaults
    \/ CallNewCursorRequest
    \/ CallNewCursorRequestWithDefaults
    \/ \E h \in Holders : DerivePageRequest(h)
    \/ \E h \in Holders : DeriveCursorRequest(h)

SpecRequest == InitRequest /\ [][NextRequest]_vars

(***************************************************************************)
(* Cursor results in use.                                                  *)
(***************************************************************************)
\* the cursors a result carries: none, a token, and text that is no token
ResultCursorInputs == { << >>, << 33 >>, << 65 >>, EncodeCursor(<< << 97 >> >>) }

InitResult ==
    /\ calls = {}
    /\ arrays = EmptyHeap
    /\ ServiceIdle
    /\ CursorIdle
    /\ SortIdle
    /\ RequestIdle
    /\ page = 0
    /\ pageSize = 0
    /\ totalItems = 0
    /\ items \in ItemLists
    /\ pageReq = NoPageRequest
    /\ offset = 0
    /\ limit = 0
    /\ pageRes = NoPageResult
    /\ hasNext = FALSE
    /\ hasPrev = FALSE
    /\ nextCursor \in ResultCursorInputs
    /\ prevCursor \in ResultCursorInputs
    /\ hasMore \in BOOLEAN
    /\ cursorRes = NoCursorResult
    /\ emptyPageRes = NoPageResult
    /\ emptyCursorRes = NoCursorResult

CallNewCursorResult ==
    /\ "NewCursorResult" \notin calls
    /\ cursorRes' = NewCursorResult(items, nextCursor, prevCursor, hasMore)
    /\ calls' = calls \cup { "NewCursorResult" }
    /\ UNCHANGED << arrays, cursorVars, pageVars, sortVars, requestVars, serviceVars,
                   nextCursor, prevCursor, hasMore, emptyPageRes, emptyCursorRes >>

CallEmptyPageResult ==
    /\ "EmptyPageResult" \notin calls
    /\ emptyPageRes' = EmptyPageResult
    /\ calls' = calls \cup { "EmptyPageResult" }
    /\ UNCHANGED << arrays, cursorVars, pageVars, sortVars, requestVars, serviceVars,
                   nextCursor, prevCursor, hasMore, cursorRes, emptyCursorRes >>

CallEmptyCursorResult ==
    /\ "EmptyCursorResult" \notin calls
    /\ emptyCursorRes' = EmptyCursorResult
    /\ calls' = calls \cup { "EmptyCursorResult" }
    /\ UNCHANGED << arrays, cursorVars, pageVars, sortVars, requestVars, serviceVars,
                   nextCursor, prevCursor, hasMore, cursorRes, emptyPageRes >>

NextResult ==
    \/ CallNewCursorResult
    \/ CallEmptyPageResult
    \/ CallEmptyCursorResult

SpecResult == InitResult /\ [][NextResult]_vars

(***************************************************************************)
(* A list endpoint: the handler sends the page with response.List and the  *)
(* domain builds the PageResult of the same page, page size and total.     *)
(***************************************************************************)
InitList ==
    /\ calls = {}
    /\ arrays = EmptyHeap
    /\ CursorIdle
    /\ SortIdle
    /\ RequestIdle
    /\ ResultIdle
    /\ page \in PageInputs
    /\ pageSize \in PageSizeInputs
    /\ totalItems \in TotalInputs
    /\ items \in ItemLists
    /\ pageReq = NoPageRequest
    /\ offset = 0
    /\ limit = 0
    /\ pageRes = NoPageResult
    /\ hasNext = FALSE
    /\ hasPrev = FALSE
    /\ listResp = NoResponse
    /\ ShutdownIdle
    /\ FieldsIdle

CallList ==
    /\ "List" \notin calls
    /\ listResp' = List(items, page, pageSize, totalItems)
    /\ calls' = calls \cup { "List" }
    /\ UNCHANGED << arrays, cursorVars, pageVars, sortVars, requestVars, resultVars,
                   shutdownVars, fieldVars >>

NextList ==
    \/ CallList
    \/ CallNewPageResult

SpecList == InitList /\ [][NextList]_vars

(***************************************************************************)
(* The service entry point (main, part_006:79-113) and Server.Run          *)
(* (errors.go:119-139): main, the goroutine in which main calls            *)
(* server.Run, the goroutine in which Run calls ListenAndServe, the        *)
(* operating system sending signals and the clients sending requests.      *)
(* Once main returns the process is gone and no goroutine takes a step.    *)
(***************************************************************************)
Signals == { "interrupt", "terminated" }

\* the variables of the pagination callers, which the service leaves alone
paginationVars ==
    << calls, arrays, cursorVars, pageVars, sortVars, requestVars, resultVars, listVars,
       fieldVars >>

InitShutdown ==
    /\ calls = {}
    /\ arrays = EmptyHeap
    /\ CursorIdle
    /\ PageIdle
    /\ SortIdle
    /\ RequestIdle
    /\ ResultIdle
    /\ ListIdle
    /\ FieldsIdle
    /\ mainPc = "start"
    /\ runPc = "none"
    /\ servePc = "none"
    /\ signals = << >>
    /\ sigSent = 0
    /\ mainErrCh = << >>
    /\ runErrCh = << >>
    /\ runCtxDone = FALSE
    /\ active = 0
    /\ logged = { "service starting" }

ProcessAlive == mainPc # "exited"

\* signal.Notify's relay: a signal is put in the channel when there is
\* room and dropped otherwise
SendSignal ==
    /\ ProcessAlive
    /\ sigSent < MaxSignals
    /\ sigSent' = sigSent + 1
    /\ \E sig \in Signals :
          signals' = IF Len(signals) = 0 THEN << sig >> ELSE signals
    /\ UNCHANGED << paginationVars, mainPc, runPc, servePc, mainErrCh, runErrCh,
                   runCtxDone, active, logged >>

\* go func() { if err := server.Run(runCtx); err != nil { errCh <- err } }()
MainStartServer ==
    /\ mainPc = "start"
    /\ mainPc' = "select"
    /\ runPc' = "run"
    /\ UNCHANGED << paginationVars, servePc, signals, sigSent, mainErrCh, runErrCh,
                   runCtxDone, active, logged >>

\* case sig := <-signals
MainReceiveSignal ==
    /\ mainPc = "select"
    /\ Len(signals) > 0
    /\ signals' = Tail(signals)
    /\ logged' = logged \cup { "received signal" }
    /\ mainPc' = "cancel"
    /\ UNCHANGED << paginationVars, runPc, servePc, sigSent, mainErrCh, runErrCh,
                   runCtxDone, active >>

\* case err := <-errCh
MainReceiveError ==
    /\ mainPc = "select"
    /\ Len(mainErrCh) > 0
    /\ mainErrCh' = Tail(mainErrCh)
    /\ logged' = logged \cup { "server error" }
    /\ mainPc' = "cancel"
    /\ UNCHANGED << paginationVars, runPc, servePc, signals, sigSent, runErrCh,
                   runCtxDone, active >>

\* cancel()
MainCancel ==
    /\ mainPc = "cancel"
    /\ runCtxDone' = TRUE
    /\ mainPc' = "log"
    /\ UNCHANGED << paginationVars, runPc, servePc, signals, sigSent, mainErrCh,
                   runErrCh, active, logged >>

\* ctx.Info("service shutdown complete")
MainLogComplete ==
    /\ mainPc = "log"
    /\ logged' = logged \cup { "service shutdown complete" }
    /\ mainPc' = "deferred"
    /\ UNCHANGED << paginationVars, runPc, servePc, signals, sigSent, mainErrCh,
                   runErrCh, runCtxDone, active >>

\* the deferred tp.Shutdown, and main returns
MainReturn ==
    /\ mainPc = "deferred"
    /\ mainPc' = "exited"
    /\ UNCHANGED << paginationVars, runPc, servePc, signals, sigSent, mainErrCh,
                   runErrCh, runCtxDone, active, logged >>

\* Run: errCh := make(chan error, 1); go func() { ... }()
RunStart ==
    /\ ProcessAlive
    /\ runPc = "run"
    /\ runPc' = "select"
    /\ servePc' = "start"
    /\ UNCHANGED << paginationVars, mainPc, signals, sigSent, mainErrCh, runErrCh,
                   runCtxDone, active, logged >>

\* the goroutine of Run logs and enters ListenAndServe
ServeStart ==
    /\ ProcessAlive
    /\ servePc = "start"
    /\ logged' = logged \cup { "starting HTTP server" }
    /\ servePc' = "serving"
    /\ UNCHANGED << paginationVars, mainPc, runPc, signals, sigSent, mainErrCh,
                   runErrCh, runCtxDone, active >>

\* ListenAndServe returns an error other than ErrServerClosed: errCh <- err
ServeFail ==
    /\ ProcessAlive
    /\ servePc = "serving"
    /\ runErrCh' = Append(runErrCh, "listen")
    /\ servePc' = "done"
    /\ UNCHANGED << paginationVars, mainPc, runPc, signals, sigSent, mainErrCh,
                   runCtxDone, active, logged >>

\* a client's request arrives at the listening server
RequestArrives ==
    /\ ProcessAlive
    /\ servePc = "serving"
    /\ active < MaxActive
    /\ active' = active + 1
    /\ UNCHANGED << paginationVars, mainPc, runPc, servePc, signals, sigSent,
                   mainErrCh, runErrCh, runCtxDone, logged >>

\* a request is answered, also while Shutdown waits for it
RequestDone ==
    /\ ProcessAlive
    /\ active > 0
    /\ active' = active - 1
    /\ UNCHANGED << paginationVars, mainPc, runPc, servePc, signals, sigSent,
                   mainErrCh, runErrCh, runCtxDone, logged >>

\* case err := <-errCh: return fmt.Errorf("http server error: %w", err)
RunReceiveError ==
    /\ ProcessAlive
    /\ runPc = "select"
    /\ Len(runErrCh) > 0
    /\ runErrCh' = Tail(runErrCh)
    /\ runPc' = "failed"
    /\ UNCHANGED << paginationVars, mainPc, servePc, signals, sigSent, mainErrCh,
                   runCtxDone, active, logged >>

\* case <-ctx.Done(): the log call, then Shutdown closes the listener, so
\* that ListenAndServe returns ErrServerClosed
RunContextDone ==
    /\ ProcessAlive
    /\ runPc = "select"
    /\ runCtxDone
    /\ logged' = logged \cup { "shutting down HTTP server" }
    /\ runPc' = "shutdown"
    /\ servePc' = IF servePc = "serving" THEN "done" ELSE servePc
    /\ UNCHANGED << paginationVars, mainPc, signals, sigSent, mainErrCh, runErrCh,
                   runCtxDone, active >>

\* Shutdown returns once no request is being served, and Run returns
RunShutdownReturns ==
    /\ ProcessAlive
    /\ runPc = "shutdown"
    /\ active = 0
    /\ runPc' = "returned"
    /\ UNCHANGED << paginationVars, mainPc, servePc, signals, sigSent, mainErrCh,
                   runErrCh, runCtxDone, active, logged >>

\* Run returned an error to main's goroutine: errCh <- err
RunReportError ==
    /\ ProcessAlive
    /\ runPc = "failed"
    /\ mainErrCh' = Append(mainErrCh, "http server error")
    /\ runPc' = "returned"
    /\ UNCHANGED << paginationVars, mainPc, servePc, signals, sigSent, runErrCh,
                   runCtxDone, active, logged >>

NextShutdown ==
    \/ SendSignal
    \/ MainStartServer
    \/ MainReceiveSignal
    \/ MainReceiveError
    \/ MainCancel
    \/ MainLogComplete
    \/ MainReturn
    \/ RunStart
    \/ ServeStart
    \/ ServeFail
    \/ RequestArrives
    \/ RequestDone
    \/ RunReceiveError
    \/ RunContextDone
    \/ RunShutdownReturns
    \/ RunReportError

SpecShutdown == InitShutdown /\ [][NextShutdown]_vars

(***************************************************************************)
(* Logging contexts in use: two goroutines derive contexts from the ones   *)
(* that exist with WithFields and log on them.  A log call is two steps,   *)
(* the append that builds allArgs and the logger call that reads it.       *)
(***************************************************************************)
\* the fields a WithFields call adds, and the arguments of a log call
FieldInputsOf == { << >>, << "a", "1" >>, << "b", "2" >> }
LogArgInputs == { << >>, << "x", "9" >>, << "y", "8" >> }

\* Background(): no parent, no fields
RootContext == [parent |-> 0, args |-> << >>, fields |-> NilFields]

InitFields ==
    /\ calls = {}
    /\ arrays = EmptyHeap
    /\ CursorIdle
    /\ PageIdle
    /\ SortIdle
    /\ RequestIdle
    /\ ResultIdle
    /\ ListIdle
    /\ ShutdownIdle
    /\ contexts = << RootContext >>
    /\ fieldArrays = << >>
    /\ goPc = [g \in Holders |-> "idle"]
    /\ goCall = [g \in Holders |-> NoLogCall]
    /\ goAllArgs = [g \in Holders |-> AllArgs(0, 0, << >>)]
    /\ goPassed = [g \in Holders |-> << >>]

\* goroutine g is between two calls
BetweenCalls(g) == goPc[g] \in { "idle", "logged" }

\* goroutine g runs child := parent.WithFields(args...)
DeriveContext(g) ==
    /\ BetweenCalls(g)
    /\ Len(contexts) < MaxContexts
    /\ \E parent \in 1..Len(contexts), args \in FieldInputsOf :
          LET made == WithFields(fieldArrays, fieldsFromContext(contexts[parent]), args)
          IN  /\ contexts' = Append(contexts,
                                    [parent |-> parent, args |-> args, fields |-> made.slice])
              /\ fieldArrays' = made.heap
    /\ goPc' = [goPc EXCEPT ![g] = "idle"]
    /\ goCall' = [goCall EXCEPT ![g] = NoLogCall]
    /\ goAllArgs' = [goAllArgs EXCEPT ![g] = AllArgs(0, 0, << >>)]
    /\ goPassed' = [goPassed EXCEPT ![g] = << >>]
    /\ calls' = calls \cup { "WithFields" }
    /\ UNCHANGED << arrays, cursorVars, pageVars, sortVars, requestVars, resultVars,
                   listVars, shutdownVars >>

\* goroutine g enters ctx.Info(msg, args...): logWithCaller reads the fields
\* and builds allArgs := append(fields, args...)
LogAppend(g) ==
    /\ BetweenCalls(g)
    /\ \E c \in 1..Len(contexts), args \in LogArgInputs :
          LET built == AppendArgs(fieldArrays, fieldsFromContext(contexts[c]), args)
          IN  /\ goCall' = [goCall EXCEPT ![g] = [ctx |-> c, args |-> args]]
              /\ goAllArgs' = [goAllArgs EXCEPT ![g] = built.slice]
              /\ fieldArrays' = built.heap
    /\ goPc' = [goPc EXCEPT ![g] = "appended"]
    /\ goPassed' = [goPassed EXCEPT ![g] = << >>]
    /\ calls' = calls \cup { "Info" }
    /\ UNCHANGED << arrays, cursorVars, pageVars, sortVars, requestVars, resultVars,
                   listVars, shutdownVars, contexts >>

\* logWithCaller hands allArgs to the logger: customLogger.Info(msg,
\* allArgs...) or the slog record
LogDeliver(g) ==
    /\ goPc[g] = "appended"
    /\ goPassed' = [goPassed EXCEPT ![g] = ReadArgs(fieldArrays, goAllArgs[g])]
    /\ goPc' = [goPc EXCEPT ![g] = "logged"]
    /\ UNCHANGED << calls, arrays, cursorVars, pageVars, sortVars, requestVars,
                   resultVars, listVars, shutdownVars, contexts, fieldArrays, goCall,
                   goAllArgs >>

NextFields ==
    \/ \E g \in Holders : DeriveContext(g)
    \/ \E g \in Holders : LogAppend(g)
    \/ \E g \in Holders : LogDeliver(g)

SpecFields == InitFields /\ [][NextFields]_vars

(***************************************************************************)
(* Properties of the cursor codec, checked under SpecCursor.               *)
(***************************************************************************)
\* no value holds the separator byte
NoSeparator(vs) == \A i \in 1..Len(vs) : \A k \in 1..Len(vs[i]) : vs[i][k] # cursorSeparator

\* EncodeCursor(values) was called and DecodeCursor was called on its token
EncodedAndDecoded ==
    source = "values" /\ "EncodeCursor" \in calls /\ "DecodeCursor" \in calls

\* C1: round trip.  For every non-empty list of values, none holding the
\* separator, DecodeCursor(EncodeCursor(values...)) returns a nil error and
\* exactly the values.
CursorRoundTrip ==
    (EncodedAndDecoded /\ Len(values) > 0 /\ NoSeparator(values))
        => (decoded.err = NoError /\ ~decoded.isNil /\ decoded.values = values)

\* C2: the empty token is the "no cursor" sentinel.  EncodeCursor returns ""
\* for the empty list, and the token of a list that holds a value, a single
\* empty string included, differs from the token of the empty list.
EmptyTokenIsSentinel ==
    (source = "values" /\ "EncodeCursor" \in calls)
        => /\ Len(values) = 0 => cursor = << >>
           /\ Len(values) > 0 => cursor # EncodeCursor(<< >>)

\* C8: EncodeCursor of no values returns "", and DecodeCursor("") returns a
\* nil list and a nil error.
EmptyCursorBothWays ==
    /\ (source = "values" /\ "EncodeCursor" \in calls /\ Len(values) = 0)
           => cursor = << >>
    /\ (HasToken /\ "DecodeCursor" \in calls /\ cursor = << >>)
           => (decoded.isNil /\ decoded.values = << >> /\ decoded.err = NoError)

EmptyCursorBothWaysWitness ==
    /\ EncodedAndDecoded
    /\ values = << >>
    /\ cursor = << >>
    /\ decoded.isNil
    /\ decoded.err = NoError

\* the token without its line feeds and carriage returns
RECURSIVE StripNewlines(_)
StripNewlines(t) ==
    IF t = << >> THEN << >>
    ELSE IF IsNewline(Head(t)) THEN StripNewlines(Tail(t))
    ELSE << Head(t) >> \o StripNewlines(Tail(t))

IsAlphabetByte(c) == \E i \in 0..63 : encodeURL(i) = c

\* base64url as base64.URLEncoding reads it: line breaks apart, groups of
\* four alphabet bytes, the last group possibly ending in one or two '='
ValidBase64URL(t) ==
    LET s == StripNewlines(t)
        n == Len(s)
    IN  /\ n % 4 = 0
        /\ \A i \in 1..n :
              \/ IsAlphabetByte(s[i])
              \/ /\ s[i] = padChar
                 /\ \/ i = n
                    \/ i = n - 1 /\ s[n] = padChar

\* C9: DecodeCursor of a non-empty token that is not valid base64url returns
\* ErrInvalidCursor and no values; an error never comes with values; a
\* non-empty valid token decodes with a nil error to at least one value.
InvalidTokenRejected ==
    (HasToken /\ "DecodeCursor" \in calls /\ cursor # << >>)
        => /\ ~ValidBase64URL(cursor)
                => (decoded.err = ErrInvalidCursor /\ decoded.isNil
                    /\ decoded.values = << >>)
           /\ decoded.err # NoError => (decoded.isNil /\ decoded.values = << >>)
           /\ ValidBase64URL(cursor)
                => (decoded.err = NoError /\ ~decoded.isNil /\ Len(decoded.values) >= 1)

\* a token cut short after its first group's data ("AA="), rejected
InvalidTokenRejectedWitness ==
    /\ source = "client"
    /\ "DecodeCursor" \in calls
    /\ cursor = << 65, 65, padChar >>
    /\ decoded.err = ErrInvalidCursor
    /\ decoded.isNil

\* C10: single-value round trip.  For every string s without the separator,
\* DecodeCursorSingle(EncodeCursor(s)) returns s and a nil error.
SingleRoundTrip ==
    (source = "values" /\ "EncodeCursor" \in calls /\ "DecodeCursorSingle" \in calls
     /\ Len(values) = 1 /\ NoSeparator(values))
        => (single.err = NoError /\ single.value = values[1])

\* the number of separator bytes in the values
SeparatorCount(vs) ==
    Cardinality({ ik \in (1..Len(vs)) \X (1..MaxStrLen) :
                    ik[2] <= Len(vs[ik[1]]) /\ vs[ik[1]][ik[2]] = cursorSeparator })

\* C23: the separator is not escaped.  EncodeCursor of values of which one
\* holds the NUL byte returns a token that DecodeCursor decodes without
\* error into the values split at every NUL: no decoded value holds a NUL,
\* there is one more value per NUL, so the list is longer than the one
\* encoded, and the decoded list is a different list with the same token.
SeparatorNotEscaped ==
    (EncodedAndDecoded /\ ~NoSeparator(values))
        => /\ cursor # << >>
           /\ decoded.err = NoError
           /\ NoSeparator(decoded.values)
           /\ Len(decoded.values) = Len(values) + SeparatorCount(values)
           /\ Len(decoded.values) > Len(values)
           /\ decoded.values # values
           /\ EncodeCursor(decoded.values) = cursor

\* the value "\x00" beside the value "a" came back as three values
SeparatorNotEscapedWitness ==
    /\ EncodedAndDecoded
    /\ values = << << cursorSeparator >>, << 97 >> >>
    /\ decoded.values = << << >>, << >>, << 97 >> >>

\* C11: DecodeCursorSingle fails with ErrInvalidCursor and returns "" whenever
\* DecodeCursor of the same token fails or yields a number of values other
\* than one: none for the empty token, two or more for the encoding of a
\* list of two or more values.
SingleNeedsOneValue ==
    (HasToken /\ "DecodeCursor" \in calls /\ "DecodeCursorSingle" \in calls)
        => /\ (decoded.err # NoError \/ Len(decoded.values) # 1)
                => (single.err = ErrInvalidCursor /\ single.value = << >>)
           /\ cursor = << >>
                => (decoded.err = NoError /\ single.err = ErrInvalidCursor)
           /\ (source = "values" /\ Len(values) >= 2)
                => (decoded.err = NoError /\ Len(decoded.values) >= 2
                    /\ single.err = ErrInvalidCursor /\ single.value = << >>)

\* the encoding of two values, decoded to two and refused as a single one
SingleNeedsOneValueWitness ==
    /\ source = "values"
    /\ "DecodeCursor" \in calls
    /\ "DecodeCursorSingle" \in calls
    /\ values = << << 97 >>, << 255 >> >>
    /\ Len(decoded.values) = 2
    /\ single.err = ErrInvalidCursor

(***************************************************************************)
(* Properties of offset pagination, checked under SpecPage.                *)
(***************************************************************************)
\* C3: NewPageRequest fails with ErrInvalidPage for every page < 1, whatever
\* pageSize is: the page is checked first.
InvalidPageFirst ==
    ("NewPageRequest" \in calls /\ page < 1)
        => (pageReq.err = ErrInvalidPage /\ pageReq.req = ZeroPageRequest)

InvalidPageFirstWitness ==
    /\ "NewPageRequest" \in calls
    /\ page < 1
    /\ pageSize > MaxPageSize
    /\ pageReq.err = ErrInvalidPage

\* C4: for page >= 1, NewPageRequest fails with ErrInvalidPageSize exactly
\* when pageSize < 1 or pageSize > MaxPageSize; otherwise the error is nil,
\* Page() and PageSize() are the inputs and the sort list is empty.
PageSizeBounds ==
    ("NewPageRequest" \in calls /\ page >= 1)
        => /\ pageReq.err = ErrInvalidPageSize <=> (pageSize < 1 \/ pageSize > 1000)
           /\ ~(pageSize < 1 \/ pageSize > 1000)
                => /\ pageReq.err = NoError
                   /\ Page(pageReq.req) = page
                   /\ PageSize(pageReq.req) = pageSize
                   /\ "WithSort" \notin calls => Len(Elems(arrays, Sort(pageReq.req))) = 0

PageSizeBoundsWitness ==
    /\ "NewPageRequest" \in calls
    /\ "WithSort" \notin calls
    /\ page = 1
    /\ pageSize = 1000
    /\ pageReq.err = NoError
    /\ PageSize(pageReq.req) = 1000

\* C5: for every validated request Offset() = (Page()-1) * PageSize(), the
\* product of Go's int arithmetic, and Limit() = PageSize(), before and
\* after WithSort.
OffsetDerived ==
    ("Offset" \in calls)
        => /\ offset = WrapInt((Page(pageReq.req) - 1) * PageSize(pageReq.req))
           /\ offset = WrapInt((page - 1) * pageSize)
           /\ (page - 1) * pageSize <= MaxInt => offset = (page - 1) * pageSize
           /\ limit = PageSize(pageReq.req)
           /\ limit = pageSize

OffsetDerivedWitness ==
    /\ "Offset" \in calls
    /\ "WithSort" \in calls
    /\ Len(Elems(arrays, Sort(pageReq.req))) > 0
    /\ page = 3
    /\ pageSize = DefaultPageSize
    /\ offset = 40
    /\ limit = 20

\* C6: for totalItems >= 0 and pageSize >= 1, TotalPages() is
\* floor(totalItems/pageSize) plus one when a remainder is left, which is
\* ceil(totalItems/pageSize) and 0 for no items; Page(), PageSize() and
\* TotalItems() are the inputs.
TotalPagesCeiling ==
    ("NewPageResult" \in calls /\ totalItems >= 0 /\ pageSize >= 1)
        => /\ ~pageRes.panicked
           /\ TotalPages(pageRes) =
                (totalItems \div pageSize) + (IF totalItems % pageSize > 0 THEN 1 ELSE 0)
           /\ TotalPages(pageRes) = (totalItems + pageSize - 1) \div pageSize
           /\ totalItems = 0 => TotalPages(pageRes) = 0
           /\ Page(pageRes) = page
           /\ PageSize(pageRes) = pageSize
           /\ TotalItems(pageRes) = totalItems

TotalPagesCeilingWitness ==
    /\ "NewPageResult" \in calls
    /\ totalItems = 50
    /\ pageSize = DefaultPageSize
    /\ TotalPages(pageRes) = 3

\* C7: HasNext() is true iff page < totalPages and HasPrev() iff page > 1;
\* for no items and page 1 both are false, and on the last page HasNext()
\* is false.
HasNextHasPrev ==
    ("HasNext" \in calls)
        => /\ hasNext <=> Page(pageRes) < TotalPages(pageRes)
           /\ hasPrev <=> Page(pageRes) > 1
           /\ hasPrev <=> page > 1
           /\ (totalItems = 0 /\ page = 1) => (~hasNext /\ ~hasPrev)
           /\ page = TotalPages(pageRes) => ~hasNext

\* the last page of three: no next page, a previous one
HasNextHasPrevWitness ==
    /\ "HasNext" \in calls
    /\ totalItems = 50
    /\ pageSize = DefaultPageSize
    /\ page = 3
    /\ TotalPages(pageRes) = 3
    /\ ~hasNext
    /\ hasPrev

(***************************************************************************)
(* Properties of sort options, checked under SpecSort.                     *)
(***************************************************************************)
\* C12: every SortOption NewSortOption returns has a direction in
\* {asc, desc}: asc and desc are kept, anything else becomes asc; the field
\* is stored as given; IsAscending() is true iff the direction is asc.
DirectionNormalized ==
    ("NewSortOption" \in calls)
        => /\ Direction(sortOpt) \in { "asc", "desc" }
           /\ sortDirection \in { "asc", "desc" } => Direction(sortOpt) = sortDirection
           /\ sortDirection \notin { "asc", "desc" } => Direction(sortOpt) = "asc"
           /\ Field(sortOpt) = sortField
           /\ "IsAscending" \in calls => (isAsc <=> Direction(sortOpt) = "asc")

\* an unknown direction, stored as asc
DirectionNormalizedWitness ==
    /\ "NewSortOption" \in calls
    /\ "IsAscending" \in calls
    /\ sortDirection = "bogus"
    /\ sortField = ""
    /\ Direction(sortOpt) = "asc"
    /\ isAsc

\* C24: Offset() of a validated request is not negative and is the product
\* (page - 1) * pageSize of the integers: the int multiplication does not
\* overflow.
OffsetNeverWraps ==
    ("Offset" \in calls)
        => /\ offset >= 0
           /\ offset = (Page(pageReq.req) - 1) * PageSize(pageReq.req)

\* C25: for a valid page and page size and a total of at least 0, HasNext()
\* of the result is true exactly when Offset() + Limit() of the request
\* is less than the total.
RequestAgreesWithResult ==
    ("Offset" \in calls /\ "HasNext" \in calls /\ totalItems >= 0)
        => (hasNext <=> WrapInt(offset + limit) < totalItems)

\* C26: for a total above 0 and a page size of at least 1 the page count
\* covers the total exactly: the pages before the last hold fewer items
\* than the total, and all pages together hold at least the total.
PageCountCovers ==
    ("NewPageResult" \in calls /\ totalItems > 0 /\ pageSize >= 1)
        => /\ ~pageRes.panicked
           /\ TotalPages(pageRes) >= 1
           /\ (TotalPages(pageRes) - 1) * pageSize < totalItems
           /\ totalItems <= TotalPages(pageRes) * pageSize

\* seven items in pages of three: the third page holds the last item
PageCountCoversWitness ==
    /\ "NewPageResult" \in calls
    /\ totalItems = 7
    /\ pageSize = 3
    /\ TotalPages(pageRes) = 3

(***************************************************************************)
(* Properties of the requests, checked under SpecRequest.                  *)
(***************************************************************************)
\* the request the holders were handed
SharedRequest == IF HasPageRequest THEN pageReq.req ELSE cursorReq.req

\* a holder ran WithSort in this step
Derived == held' # held \/ lastCall' # lastCall

\* C13: a WithSort call leaves every request other than the variable its
\* result is stored in as it was, the receiver among them: the shared
\* request and the other holder's request have the same fields and their
\* Sort() reads the same clauses after the call as before it.  The new
\* request has the page, the page size and the cursor of the receiver and
\* its Sort() reads the clauses passed, in the order passed.
ReceiverUnchanged ==
    [][Derived =>
          LET h == lastCall'.holder
              d == held'[h].req
          IN  /\ pageReq' = pageReq
              /\ cursorReq' = cursorReq
              /\ Elems(arrays', Sort(SharedRequest)) = Elems(arrays, Sort(SharedRequest))
              /\ \A g \in Holders \ { h } :
                    /\ held'[g] = held[g]
                    /\ Elems(arrays', Sort(held[g].req)) = Elems(arrays, Sort(held[g].req))
              /\ \A r \in Receivers(SharedRequest) :
                    /\ PageSize(d) = PageSize(r)
                    /\ HasPageRequest => Page(d) = Page(r)
                    /\ HasCursorRequest => Cursor(d) = Cursor(r)
              /\ Elems(arrays', Sort(d)) = lastCall'.arg]_vars

\* holder g2 derived a request from the request holder g1 holds, which has
\* clauses of its own, and passed other clauses
ReceiverUnchangedWitness ==
    /\ HasPageRequest
    /\ lastCall.holder = "g2"
    /\ held["g1"].has
    /\ Len(lastCall.recvSort) = 2
    /\ Elems(arrays, Sort(held["g1"].req)) = lastCall.recvSort
    /\ Len(lastCall.arg) = 1
    /\ Elems(arrays, Sort(held["g2"].req)) = lastCall.arg
    /\ Page(held["g2"].req) = 1
    /\ PageSize(held["g2"].req) = MaxPageSize

\* C14: WithSort replaces the clauses: the request a WithSort call returned
\* reads exactly the clauses passed to that call, whatever clauses its
\* receiver had, for a PageRequest and for a CursorRequest; a call with no
\* argument returns a request with no clauses.
SortReplaced ==
    lastCall.holder \in Holders
        => LET d == held[lastCall.holder].req
           IN  /\ Elems(arrays, Sort(d)) = lastCall.arg
               /\ Sort(d).len = Len(lastCall.arg)
               /\ lastCall.arg = << >> => Sort(d) = NilSlice

\* a CursorRequest whose receiver had the clause id asc was given the
\* clause name desc
SortReplacedWitness ==
    /\ HasCursorRequest
    /\ lastCall.holder \in Holders
    /\ lastCall.recvSort = << NewSortOption("id", SortAsc) >>
    /\ lastCall.arg = << NewSortOption("name", SortDesc) >>
    /\ Elems(arrays, Sort(held[lastCall.holder].req)) = << NewSortOption("name", SortDesc) >>

\* C15: NewCursorRequest fails with ErrInvalidPageSize exactly when the
\* page size is below 1 or above 1000, whatever the cursor; otherwise it
\* succeeds, Cursor() returns the cursor as given, a token or not, and
\* HasCursor() is true exactly when the cursor is not empty.
CursorRequestValidation ==
    "NewCursorRequest" \in calls
        => /\ cursorReq.err \in { NoError, ErrInvalidPageSize }
           /\ cursorReq.err = ErrInvalidPageSize <=> (pageSize < 1 \/ pageSize > 1000)
           /\ cursorReq.err = ErrInvalidPageSize => cursorReq.req = ZeroCursorRequest
           /\ cursorReq.err = NoError
                 => /\ Cursor(cursorReq.req) = reqCursor
                    /\ PageSize(cursorReq.req) = pageSize
                    /\ HasCursor(cursorReq.req) <=> Len(reqCursor) > 0

\* a cursor that does not decode was accepted with the largest page size
CursorRequestValidationWitness ==
    /\ "NewCursorRequest" \in calls
    /\ DecodeCursor(reqCursor).err = ErrInvalidCursor
    /\ pageSize = MaxPageSize
    /\ cursorReq.err = NoError
    /\ HasCursor(cursorReq.req)

\* C17: no step of a holder writes to what another holder sees.  The
\* shared request keeps its fields and its clauses once it is built, a
\* holder's request changes only when that holder stores a new one, and
\* the clauses a request reads stay the same while it is held, also when
\* two requests share one backing array.
NoHolderDisturbed ==
    [][/\ HasPageRequest => pageReq' = pageReq
       /\ HasCursorRequest => cursorReq' = cursorReq
       /\ (HasPageRequest \/ HasCursorRequest)
             => Elems(arrays', Sort(SharedRequest)) = Elems(arrays, Sort(SharedRequest))
       /\ \A g \in Holders :
             /\ held'[g] # held[g] => lastCall'.holder = g
             /\ (held[g].has /\ held'[g] = held[g])
                   => Elems(arrays', Sort(held'[g].req)) = Elems(arrays, Sort(held[g].req))]_vars

\* the two holders hold requests whose clauses are one backing array
NoHolderDisturbedWitness ==
    /\ held["g1"].has
    /\ held["g2"].has
    /\ Sort(held["g1"].req).ref # 0
    /\ Sort(held["g1"].req) = Sort(held["g2"].req)
    /\ Len(Elems(arrays, Sort(held["g1"].req))) = 2

\* C19: every request built without error and every request derived from
\* it by WithSort calls has a page size from 1 to 1000, and a PageRequest
\* has a page of at least 1.
RequestInvariant ==
    /\ HasPageRequest
          => \A r \in Receivers(pageReq.req) :
                Page(r) >= 1 /\ PageSize(r) >= 1 /\ PageSize(r) <= 1000
    /\ HasCursorRequest
          => \A r \in Receivers(cursorReq.req) :
                PageSize(r) >= 1 /\ PageSize(r) <= 1000

\* a PageRequest with the largest page size went through two WithSort calls
RequestInvariantWitness ==
    /\ "NewPageRequest" \in calls
    /\ lastCall.holder = "g1"
    /\ Len(lastCall.recvSort) > 0
    /\ Len(lastCall.arg) > 0
    /\ PageSize(held["g1"].req) = MaxPageSize

\* C20: the default constructors return, with no error, page 1, page size
\* 20 and no sort, the value of NewPageRequest(1, 20), and cursor "", page
\* size 20 and no sort, the value of NewCursorRequest("", 20).
DefaultsAreConstants ==
    /\ "NewPageRequestWithDefaults" \in calls
          => /\ pageReq = NewPageRequest(1, 20)
             /\ pageReq.err = NoError
             /\ Page(pageReq.req) = 1
             /\ PageSize(pageReq.req) = 20
             /\ Sort(pageReq.req) = NilSlice
    /\ "NewCursorRequestWithDefaults" \in calls
          => /\ cursorReq = NewCursorRequest(<< >>, 20)
             /\ cursorReq.err = NoError
             /\ Cursor(cursorReq.req) = << >>
             /\ ~HasCursor(cursorReq.req)
             /\ PageSize(cursorReq.req) = 20
             /\ Sort(cursorReq.req) = NilSlice

\* a default PageRequest was built and is in use
DefaultsAreConstantsWitness ==
    /\ "NewPageRequestWithDefaults" \in calls
    /\ Limit(pageReq.req) = DefaultPageSize
    /\ held["g1"].has

(***************************************************************************)
(* Properties of the cursor results, checked under SpecResult.             *)
(***************************************************************************)
\* C16: the getters of the value NewCursorResult returns give back its four
\* arguments; HasMore() is the hasMore argument whatever the next cursor is.
PureAggregation ==
    "NewCursorResult" \in calls
        => /\ Items(cursorRes) = items
           /\ NextCursorOf(cursorRes) = nextCursor
           /\ PrevCursor(cursorRes) = prevCursor
           /\ HasMore(cursorRes) = hasMore

\* a result that has more items and no next cursor
PureAggregationWitness ==
    /\ "NewCursorResult" \in calls
    /\ HasMore(cursorRes)
    /\ NextCursorOf(cursorRes) = << >>
    /\ PrevCursor(cursorRes) # << >>

\* C21: EmptyPageResult returns the sentinel: no items, page 1, page size
\* 20, no total items, no pages, no next and no previous page; it is the
\* value NewPageResult builds from no items, page 1, page size 20, total 0.
EmptyPageSentinel ==
    "EmptyPageResult" \in calls
        => /\ IsEmpty(emptyPageRes)
           /\ Page(emptyPageRes) = 1
           /\ PageSize(emptyPageRes) = 20
           /\ TotalItems(emptyPageRes) = 0
           /\ TotalPages(emptyPageRes) = 0
           /\ ~HasNext(emptyPageRes)
           /\ ~HasPrev(emptyPageRes)
           /\ emptyPageRes = NewPageResult(<< >>, 1, 20, 0)

\* the sentinel was built
EmptyPageSentinelWitness ==
    /\ "EmptyPageResult" \in calls
    /\ emptyPageRes = EmptyPageResult
    /\ emptyPageRes # NoPageResult

\* C22: EmptyCursorResult returns the sentinel: no items, both cursors
\* empty, HasMore() false.
EmptyCursorSentinel ==
    "EmptyCursorResult" \in calls
        => /\ IsEmpty(emptyCursorRes)
           /\ Items(emptyCursorRes) = << >>
           /\ NextCursorOf(emptyCursorRes) = << >>
           /\ PrevCursor(emptyCursorRes) = << >>
           /\ ~HasMore(emptyCursorRes)

\* the sentinel was built beside a result that has items and more to come
EmptyCursorSentinelWitness ==
    /\ "EmptyCursorResult" \in calls
    /\ "NewCursorResult" \in calls
    /\ emptyCursorRes = EmptyCursorResult
    /\ ~IsEmpty(cursorRes)
    /\ HasMore(cursorRes)

(***************************************************************************)
(* Properties of the list response, checked under SpecList.                *)
(***************************************************************************)
\* C27: List sends a 200 success response whose pagination reports the
\* page, the page size and the total as given; total_pages is 0 for a page
\* size of 0 or less, and for a page size above 0 it is the total divided
\* by the page size, rounded up.
ListPagination ==
    "List" \in calls
        => /\ listResp.status = 200
           /\ listResp.success
           /\ listResp.data = items
           /\ listResp.pagination.page = page
           /\ listResp.pagination.pageSize = pageSize
           /\ listResp.pagination.total = totalItems
           /\ pageSize <= 0 => listResp.pagination.totalPages = 0
           /\ (pageSize > 0 /\ totalItems >= 0)
                 => listResp.pagination.totalPages =
                        (totalItems \div pageSize)
                            + (IF totalItems % pageSize > 0 THEN 1 ELSE 0)

\* C28: for a total of at least 0 and a page size from 1 to 1000, the
\* total_pages List reports is TotalPages() of the NewPageResult of the
\* same page, page size and total.
PageCountsAgree ==
    ("List" \in calls /\ "NewPageResult" \in calls
     /\ totalItems >= 0 /\ pageSize >= 1 /\ pageSize <= 1000)
        => listResp.pagination.totalPages = TotalPages(pageRes)

(***************************************************************************)
(* Shutdown of the service, checked under SpecShutdown.                    *)
(***************************************************************************)
\* Server.Run has returned, after Shutdown or with the server's error
RunReturned == runPc \in { "failed", "returned" }

\* C29: when main has logged "service shutdown complete", and when the
\* process exits, the run context is cancelled and Server.Run has finished
\* Shutdown and returned.
ShutdownBeforeComplete ==
    ("service shutdown complete" \in logged \/ mainPc = "exited")
        => (runCtxDone /\ RunReturned)

(***************************************************************************)
(* Properties of the logging contexts, checked under SpecFields.           *)
(***************************************************************************)
\* the fields of the WithFields calls on the way from the root to context
\* c, in call order
RECURSIVE Accumulated(_)
Accumulated(c) ==
    IF c = 0 THEN << >> ELSE Accumulated(contexts[c].parent) \o contexts[c].args

\* C30: every context reads the fields accumulated on its chain of
\* WithFields calls, in call order, whatever contexts were derived from it
\* and whatever log calls ran or are running on it in either goroutine;
\* and a log call passes to the logger the accumulated fields of its
\* context followed by its own arguments.
FieldsAccumulate ==
    /\ \A c \in 1..Len(contexts) :
          Elems(fieldArrays, fieldsFromContext(contexts[c])) = Accumulated(c)
    /\ \A g \in Holders :
          goPc[g] = "logged"
              => goPassed[g] = Accumulated(goCall[g].ctx) \o goCall[g].args

\* both goroutines log with arguments on one context, which has the fields
\* of two WithFields calls and a child of its own; one call is delivered
FieldsAccumulateWitness ==
    /\ Len(contexts) = 3
    /\ contexts[3].parent = 2
    /\ goCall["g1"].ctx = 2
    /\ goCall["g2"].ctx = 2
    /\ goPc["g1"] = "logged"
    /\ goPc["g2"] = "appended"
    /\ goPassed["g1"] = << "a", "1", "x", "9" >>
    /\ Elems(fieldArrays, fieldsFromContext(contexts[3])) = << "a", "1", "b", "2" >>

(***************************************************************************)
(* Termination of the operations, checked under SpecPage.                  *)
(***************************************************************************)
\* C18: no operation panics: NewPageResult returns a result for every page,
\* page size and total.
NeverPanics == "NewPageResult" \in calls => ~pageRes.panicked

=============================================================================
